---- MODULE Spec2Model ----
(***************************************************************************)
(* Model of the pension simulator: the parameter bundle PensionInputs      *)
(* (models.py), the calculator functions get_delingsfaktor_nav,            *)
(* simulate_until_pension_age and annual_pension_from_balance              *)
(* (pension_calculator.py) and the calculation loop of the Streamlit page  *)
(* (app.py).                                                               *)
(*                                                                         *)
(* Number representation.  The program computes in Python floats; the      *)
(* model computes exactly, in fixed point:                                 *)
(*   - ages and years are integers;                                        *)
(*   - money (balances, flows, g_amount, salary) is an integer amount;     *)
(*   - salary_in_g and every rate are held in tenths (7.1 is 71, a rate of *)
(*     0.5 is 5, a growth of -1.0 is -10);                                 *)
(*   - a divisor is held in hundredths (20.06 is 2006);                    *)
(*   - a quotient balance / divisor is an exact fraction in lowest terms.  *)
(* The input sets are chosen so that every product with a tenths value is  *)
(* a whole amount (FixedPointExact).                                       *)
(***************************************************************************)
EXTENDS Integers, Sequences, FiniteSets, TLC

VARIABLES call, ret, pc, ui, inputs, idx, rows, errors

vars == <<call, ret, pc, ui, inputs, idx, rows, errors>>

(***************************************************************************)
(* Bounds of the model.                                                    *)
(***************************************************************************)
\* The projection runs start at the ages FirstAge and FirstAge + 1 ...
FirstAge == 36
\* ... and cover retirement ages up to MaxYears + 1 years later.
MaxYears == 3
\* Ages handed to the divisor and annuity functions range over -1 .. MaxDivisorAge.
MaxDivisorAge == 91
\* At most this many retirement ages are selected in one run of the page.
MaxSelected == 3

(***************************************************************************)
(* Python values.                                                          *)
(***************************************************************************)
Pending == [kind |-> "pending"]
Return(v) == [kind |-> "return", value |-> v]
\* raise ValueError(message): the message is kept as the field it names, its
\* wording, and the values formatted into it.
Raise(field, text, values) ==
    [kind |-> "raise", exc |-> "ValueError", field |-> field, text |-> text,
     values |-> values]

Max(a, b) == IF a >= b THEN a ELSE b
Min(a, b) == IF a <= b THEN a ELSE b
Abs(a) == IF a < 0 THEN -a ELSE a

RECURSIVE Gcd(_, _)
Gcd(a, b) == IF b = 0 THEN a ELSE Gcd(b, a % b)

\* The exact quotient n / d (d > 0), in lowest terms.
Frac(n, d) ==
    LET g == Gcd(Abs(n), d) IN [num |-> n \div g, den |-> d \div g]

\* amount * x for x held in tenths.
Times(amount, tenths) == (amount * tenths) \div 10

\* float(years) as a divisor, in hundredths.
Float(years) == years * 100

\* balance / divisor, the divisor in hundredths.
Divide(balance, divisor) == Frac(balance * 100, divisor)

\* The literal 0.0.
Zero == Frac(0, 1)

(***************************************************************************)
(* pension_calculator.py: constants.                                       *)
(***************************************************************************)
SALARY_CAP_IN_G == 71
MIN_NAV_PENSION_AGE == 62
STANDARD_PENSION_AGE == 67
MAX_NAV_PENSION_AGE == 75
ANNUAL_DIVISOR_REDUCTION == 90

DELINGSFAKTOR_1963 ==
    (62 :> 2006) @@ (63 :> 1925) @@ (64 :> 1844) @@ (65 :> 1763) @@
    (66 :> 1683) @@ (67 :> 1602)

(***************************************************************************)
(* pension_calculator.py: get_delingsfaktor_nav.                           *)
(***************************************************************************)
\* Mutant: the extrapolation band stops one year early.
get_delingsfaktor_nav_band(pension_age, birth_year, life_expectancy) ==
    IF /\ MIN_NAV_PENSION_AGE <= pension_age
       /\ pension_age <= STANDARD_PENSION_AGE
       /\ pension_age \in DOMAIN DELINGSFAKTOR_1963
    THEN DELINGSFAKTOR_1963[pension_age]
    ELSE IF /\ STANDARD_PENSION_AGE + 1 <= pension_age
            /\ pension_age < MAX_NAV_PENSION_AGE
    THEN LET base67 == DELINGSFAKTOR_1963[STANDARD_PENSION_AGE]
             adjustment == ANNUAL_DIVISOR_REDUCTION * (pension_age - STANDARD_PENSION_AGE)
         IN  Max(Float(1), base67 - adjustment)
    ELSE Float(Max(1, life_expectancy - pension_age))

\* Mutant: the fallback has no floor of one year.
get_delingsfaktor_nav_nofloor(pension_age, birth_year, life_expectancy) ==
    IF /\ MIN_NAV_PENSION_AGE <= pension_age
       /\ pension_age <= STANDARD_PENSION_AGE
       /\ pension_age \in DOMAIN DELINGSFAKTOR_1963
    THEN DELINGSFAKTOR_1963[pension_age]
    ELSE IF /\ STANDARD_PENSION_AGE + 1 <= pension_age
            /\ pension_age <= MAX_NAV_PENSION_AGE
    THEN LET base67 == DELINGSFAKTOR_1963[STANDARD_PENSION_AGE]
             adjustment == ANNUAL_DIVISOR_REDUCTION * (pension_age - STANDARD_PENSION_AGE)
         IN  Max(Float(1), base67 - adjustment)
    ELSE Float(life_expectancy - pension_age)

get_delingsfaktor_nav(pension_age, birth_year, life_expectancy) ==
    IF /\ MIN_NAV_PENSION_AGE <= pension_age
       /\ pension_age <= STANDARD_PENSION_AGE
       /\ pension_age \in DOMAIN DELINGSFAKTOR_1963
    THEN DELINGSFAKTOR_1963[pension_age]
    ELSE IF /\ STANDARD_PENSION_AGE + 1 <= pension_age
            /\ pension_age <= MAX_NAV_PENSION_AGE
    THEN LET base67 == DELINGSFAKTOR_1963[STANDARD_PENSION_AGE]
             adjustment == ANNUAL_DIVISOR_REDUCTION * (pension_age - STANDARD_PENSION_AGE)
         IN  Max(Float(1), base67 - adjustment)
    ELSE Float(Max(1, life_expectancy - pension_age))

(***************************************************************************)
(* pension_calculator.py: annual_pension_from_balance.                     *)
(***************************************************************************)
\* Mutant: the NAV-style divisor starts one year late.
annual_pension_from_balance_late(balance, pension_age, birth_year, life_expectancy, use_nav_style) ==
    IF balance <= 0
    THEN Zero
    ELSE LET divisor ==
                 IF use_nav_style /\ pension_age > MIN_NAV_PENSION_AGE
                 THEN get_delingsfaktor_nav(pension_age, birth_year, life_expectancy)
                 ELSE Float(Max(1, life_expectancy - pension_age))
         IN  Divide(balance, divisor)

\* Mutant: only a balance of exactly zero is short-circuited.
annual_pension_from_balance_eq(balance, pension_age, birth_year, life_expectancy, use_nav_style) ==
    IF balance = 0
    THEN Zero
    ELSE LET divisor ==
                 IF use_nav_style /\ pension_age >= MIN_NAV_PENSION_AGE
                 THEN get_delingsfaktor_nav(pension_age, birth_year, life_expectancy)
                 ELSE Float(Max(1, life_expectancy - pension_age))
         IN  Divide(balance, divisor)

annual_pension_from_balance(balance, pension_age, birth_year, life_expectancy, use_nav_style) ==
    IF balance <= 0
    THEN Zero
    ELSE LET divisor ==
                 IF use_nav_style /\ pension_age >= MIN_NAV_PENSION_AGE
                 THEN get_delingsfaktor_nav(pension_age, birth_year, life_expectancy)
                 ELSE Float(Max(1, life_expectancy - pension_age))
         IN  Divide(balance, divisor)

(***************************************************************************)
(* models.py: PensionInputs.__post_init__.  current_year is                *)
(* datetime.date.today().year.                                             *)
(***************************************************************************)
PensionInputs_post_init(self, current_year) ==
    IF ~(0 <= self.current_age /\ self.current_age <= 120)
    THEN Raise("current_age", "must be between 0 and 120, got", <<self.current_age>>)
    ELSE IF self.life_expectancy <= self.current_age
    THEN Raise("life_expectancy", "must be greater than current_age",
               <<self.life_expectancy, self.current_age>>)
    ELSE IF ~(1900 <= self.birth_year /\ self.birth_year <= current_year)
    THEN Raise("birth_year", "must be between 1900 and, got",
               <<current_year, self.birth_year>>)
    ELSE IF self.current_folketrygd_balance < 0
    THEN Raise("current_folketrygd_balance", "cannot be negative", <<>>)
    ELSE IF self.current_otp_balance < 0
    THEN Raise("current_otp_balance", "cannot be negative", <<>>)
    ELSE IF self.current_savings < 0
    THEN Raise("current_savings", "cannot be negative", <<>>)
    ELSE IF self.annual_savings < 0
    THEN Raise("annual_savings", "cannot be negative", <<>>)
    ELSE IF self.annual_rental_savings < 0
    THEN Raise("annual_rental_savings", "cannot be negative", <<>>)
    ELSE IF self.g_amount <= 0
    THEN Raise("g_amount", "must be positive, got", <<self.g_amount>>)
    ELSE IF self.salary_in_g < 0
    THEN Raise("salary_in_g", "cannot be negative, got", <<self.salary_in_g>>)
    ELSE Return("None")

(***************************************************************************)
(* pension_calculator.py: simulate_until_pension_age.                      *)
(***************************************************************************)
\* Mutant: the last working year is one year late.
IsWorkingInclusive(age, work_until_age) == age <= work_until_age

\* is_working = age < work_until_age
IsWorking(age, work_until_age) == age < work_until_age

\* Mutant: the part of the salary above the cap is subtracted.
OtpAccrualMinus(self, salary, cap_salary) ==
    LET below_cap == cap_salary
        above_cap == Max(0, salary - cap_salary)
    IN  Times(below_cap, self.otp_below_rate) - Times(above_cap, self.otp_above_rate)

\* below_cap * otp_below_rate + above_cap * otp_above_rate
OtpAccrual(self, salary, cap_salary) ==
    LET below_cap == cap_salary
        above_cap == Max(0, salary - cap_salary)
    IN  Times(below_cap, self.otp_below_rate) + Times(above_cap, self.otp_above_rate)

\* Mutant: the balance is multiplied by the growth rate alone.
GrowNoPrincipal(balance, growth) == Times(balance, growth)

\* balance *= (1 + growth)
Grow(balance, growth) == Times(balance, 10 + growth)

\* One pass of the loop body for the year of `age`, from the balances bal.
SimulateYear(self, work_until_age, age, bal) ==
    LET salary == Times(self.g_amount, self.salary_in_g)
        is_working == IsWorking(age, work_until_age)
        cap_salary == Min(salary, Times(self.g_amount, SALARY_CAP_IN_G))
        folketrygd ==
            IF is_working
            THEN bal.folketrygd + Times(cap_salary, self.state_accrual_rate)
            ELSE bal.folketrygd
        otp ==
            IF is_working
            THEN bal.otp + OtpAccrual(self, salary, cap_salary)
            ELSE bal.otp
        savings ==
            IF is_working
            THEN bal.savings + self.annual_savings + self.annual_rental_savings
            ELSE bal.savings
    IN  [folketrygd |-> Grow(folketrygd, self.folketrygd_growth),
         otp |-> Grow(otp, self.otp_growth),
         savings |-> Grow(savings, self.savings_growth)]

\* for age in range(age, pension_age)
RECURSIVE SimulateFrom(_, _, _, _, _)
SimulateFrom(self, work_until_age, age, pension_age, bal) ==
    IF age >= pension_age
    THEN bal
    ELSE SimulateFrom(self, work_until_age, age + 1, pension_age,
                      SimulateYear(self, work_until_age, age, bal))

\* Mutant: a retirement age equal to the current age is let through.
simulate_until_pension_age_lt(self, work_until_age, pension_age) ==
    IF pension_age < self.current_age
    THEN Raise("pension_age", "must be greater than current_age",
               <<pension_age, self.current_age>>)
    ELSE IF pension_age > self.life_expectancy
    THEN Raise("pension_age", "cannot exceed life_expectancy",
               <<pension_age, self.life_expectancy>>)
    ELSE Return(SimulateFrom(self, work_until_age, self.current_age, pension_age,
                             [folketrygd |-> self.current_folketrygd_balance,
                              otp |-> self.current_otp_balance,
                              savings |-> self.current_savings]))

simulate_until_pension_age(self, work_until_age, pension_age) ==
    IF pension_age <= self.current_age
    THEN Raise("pension_age", "must be greater than current_age",
               <<pension_age, self.current_age>>)
    ELSE IF pension_age > self.life_expectancy
    THEN Raise("pension_age", "cannot exceed life_expectancy",
               <<pension_age, self.life_expectancy>>)
    ELSE Return(SimulateFrom(self, work_until_age, self.current_age, pension_age,
                             [folketrygd |-> self.current_folketrygd_balance,
                              otp |-> self.current_otp_balance,
                              savings |-> self.current_savings]))

(***************************************************************************)
(* The page is not running while a single function is exercised.           *)
(***************************************************************************)
PageIdle ==
    /\ pc = "idle"
    /\ ui = [pension_ages |-> <<>>]
    /\ inputs = "None"
    /\ idx = 0
    /\ rows = <<>>
    /\ errors = <<>>

BirthYears == {1900, 1963, 1989}

(***************************************************************************)
(* SpecDivisor: one call of get_delingsfaktor_nav on any arguments.        *)
(***************************************************************************)
DivisorCalls ==
    [op : {"divisor"}, pension_age : -1 .. MaxDivisorAge, birth_year : BirthYears,
     life_expectancy : 0 .. MaxDivisorAge]

InitDivisor == call \in DivisorCalls /\ ret = Pending /\ PageIdle

CallDivisor ==
    /\ call.op = "divisor"
    /\ ret = Pending
    /\ ret' = Return(get_delingsfaktor_nav(call.pension_age, call.birth_year,
                                            call.life_expectancy))
    /\ UNCHANGED <<call, pc, ui, inputs, idx, rows, errors>>

NextDivisor == CallDivisor

SpecDivisor == InitDivisor /\ [][NextDivisor]_vars

(***************************************************************************)
(* SpecAnnual: one call of annual_pension_from_balance on any arguments.   *)
(***************************************************************************)
AnnualCalls ==
    [op : {"annual"}, balance : {-100, -1, 0, 1, 1000},
     pension_age : -1 .. MaxDivisorAge, birth_year : {1963, 1989},
     life_expectancy : {0, 62, 63, 80, MaxDivisorAge}, use_nav_style : BOOLEAN]

InitAnnual == call \in AnnualCalls /\ ret = Pending /\ PageIdle

CallAnnual ==
    /\ call.op = "annual"
    /\ ret = Pending
    /\ ret' = Return(annual_pension_from_balance(call.balance, call.pension_age,
                         call.birth_year, call.life_expectancy, call.use_nav_style))
    /\ UNCHANGED <<call, pc, ui, inputs, idx, rows, errors>>

NextAnnual == CallAnnual

SpecAnnual == InitAnnual /\ [][NextAnnual]_vars

(***************************************************************************)
(* Claims about get_delingsfaktor_nav.                                     *)
(***************************************************************************)
Returned(op) == call.op = op /\ ret.kind = "return"

\* C2: the divisor is the table value for ages 62..67 (20.06, 19.25, 18.44,
\* 17.63, 16.83, 16.02), max(1.0, 16.02 - 0.9 * (age - 67)) for ages 68..75
\* (13.32 at 70), max(1, life_expectancy - age) for every other age, and the
\* same for every birth_year.
C2_DivisorPolicy ==
    Returned("divisor") =>
        LET a == call.pension_age
            le == call.life_expectancy
            table == <<2006, 1925, 1844, 1763, 1683, 1602>>
        IN  /\ (62 <= a /\ a <= 67) => ret.value = table[a - 61]
            /\ (68 <= a /\ a <= 75) => ret.value = Max(100, 1602 - 90 * (a - 67))
            /\ a = 70 => ret.value = 1332
            /\ (a < 62 \/ a > 75) => ret.value = 100 * Max(1, le - a)
            /\ \A b \in BirthYears : get_delingsfaktor_nav(a, b, le) = ret.value

\* C2 witness: the extrapolated divisor of age 70 has been returned.
C2_Witness ==
    /\ Returned("divisor")
    /\ call.pension_age = 70
    /\ ret.value = 1332

\* C3: the divisor is always positive, in fact at least 1.
C3_DivisorPositive ==
    Returned("divisor") => ret.value >= 100

\* C3 witness: retirement at the life expectancy of 90 gives the floor, 1.0.
C3_Witness ==
    /\ Returned("divisor")
    /\ call.pension_age = 90
    /\ call.life_expectancy = 90
    /\ ret.value = 100

(***************************************************************************)
(* Claims about annual_pension_from_balance.                               *)
(***************************************************************************)
\* C4: a positive balance is divided by the NAV divisor when use_nav_style
\* holds and the age is at least 62, and by max(1, life_expectancy - age) in
\* every other case.
C4_AnnualDivisor ==
    (Returned("annual") /\ call.balance > 0) =>
        LET a == call.pension_age
            le == call.life_expectancy
            divisor ==
                IF call.use_nav_style /\ a >= 62
                THEN get_delingsfaktor_nav(a, call.birth_year, le)
                ELSE 100 * Max(1, le - a)
        IN  ret.value = Frac(call.balance * 100, divisor)

\* C4 witness: a positive balance annualized NAV-style at the floor age 62.
C4_Witness ==
    /\ Returned("annual")
    /\ call.balance > 0
    /\ call.use_nav_style
    /\ call.pension_age = 62
    /\ ret.value = Frac(call.balance * 100, 2006)

\* C5: a balance <= 0 gives exactly 0.0, and no income is negative.
C5_NonNegativeIncome ==
    Returned("annual") =>
        /\ call.balance <= 0 => ret.value = Zero
        /\ ret.value.num >= 0
        /\ ret.value.den > 0

\* C5 witness: a negative balance has been annualized to 0.0.
C5_Witness ==
    /\ Returned("annual")
    /\ call.balance < 0
    /\ ret.value = Zero

(***************************************************************************)
(* SpecBundle: one construction of PensionInputs from any field values.    *)
(***************************************************************************)
Bundle(ages, birth_year, balances, flows, g_amount, salary_in_g, accrual, growth) ==
    [current_age |-> ages[1],
     birth_year |-> birth_year,
     current_folketrygd_balance |-> balances[1],
     current_otp_balance |-> balances[2],
     current_savings |-> balances[3],
     annual_savings |-> flows[1],
     annual_rental_savings |-> flows[2],
     g_amount |-> g_amount,
     salary_in_g |-> salary_in_g,
     state_accrual_rate |-> accrual[1],
     otp_below_rate |-> accrual[2],
     otp_above_rate |-> accrual[3],
     folketrygd_growth |-> growth[1],
     otp_growth |-> growth[2],
     savings_growth |-> growth[3],
     life_expectancy |-> ages[2]]

CurrentYears == {2025, 2026}

ConstructCalls ==
    {[op |-> "construct", current_year |-> cy,
      fields |-> Bundle(ages, by, bal, fl, g, s, <<2, 1, 2>>, gr)] :
        cy \in CurrentYears,
        ages \in {-1, 0, 36, 120, 121} \X {0, 36, 37, 121},
        by \in {1899, 1900, 2026, 2027},
        bal \in {-1, 500} \X {-1, 0} \X {-1, 0},
        fl \in {-1, 0} \X {-1, 0},
        g \in {0, 100},
        s \in {-1, 71},
        gr \in {<<-20, 0, 10>>}}

InitBundle == call \in ConstructCalls /\ ret = Pending /\ PageIdle

CallConstruct ==
    /\ call.op = "construct"
    /\ ret = Pending
    /\ ret' = PensionInputs_post_init(call.fields, call.current_year)
    /\ UNCHANGED <<call, pc, ui, inputs, idx, rows, errors>>

NextBundle == CallConstruct

SpecBundle == InitBundle /\ [][NextBundle]_vars

(***************************************************************************)
(* Claim about PensionInputs.__post_init__.                                *)
(***************************************************************************)
Values(seq) == {seq[i] : i \in DOMAIN seq}

\* The fields the claim lists whose value is out of range.
OffendingFields(f, current_year) ==
    (IF f.current_age < 0 \/ f.current_age > 120 THEN {"current_age"} ELSE {})
    \cup (IF f.life_expectancy <= f.current_age THEN {"life_expectancy"} ELSE {})
    \cup (IF f.birth_year < 1900 \/ f.birth_year > current_year
          THEN {"birth_year"} ELSE {})
    \cup {n \in {"current_folketrygd_balance", "current_otp_balance",
                 "current_savings", "annual_savings", "annual_rental_savings"} :
            f[n] < 0}
    \cup (IF f.g_amount <= 0 THEN {"g_amount"} ELSE {})
    \cup (IF f.salary_in_g < 0 THEN {"salary_in_g"} ELSE {})

\* C9: construction fails whenever a listed field is out of range, and the
\* error names both the field and its offending value.
C9_ValidationErrors ==
    (call.op = "construct" /\ ret # Pending) =>
        LET bad == OffendingFields(call.fields, call.current_year)
        IN  bad # {} =>
                /\ ret.kind = "raise"
                /\ ret.field \in bad
                /\ call.fields[ret.field] \in Values(ret.values)

\* C9, the part the code meets: construction fails exactly when a listed field
\* is out of range, and the error names an offending field.
C9_FailsAndNamesField ==
    (call.op = "construct" /\ ret # Pending) =>
        LET bad == OffendingFields(call.fields, call.current_year)
        IN  /\ bad # {} => (ret.kind = "raise" /\ ret.field \in bad)
            /\ bad = {} => ret = Return("None")

(***************************************************************************)
(* SpecSim: one call of simulate_until_pension_age on a valid bundle.      *)
(***************************************************************************)
SimAges == {30} \cup (FirstAge - 1 .. FirstAge + MaxYears + 1)

Salaries == {0, 30, 71, 120}

\* <<state_accrual_rate, otp_below_rate, otp_above_rate>>
AccrualRates ==
    {<<0, 0, 0>>, <<2, 1, 2>>, <<10, 5, 0>>, <<-5, 0, 0>>, <<0, -5, 0>>, <<0, 0, -5>>}

\* <<folketrygd_growth, otp_growth, savings_growth>>
GrowthRates ==
    {<<0, 0, 0>>, <<10, 10, 10>>, <<-10, 0, 10>>, <<-20, 0, 0>>, <<0, -20, 10>>}

\* The bundle passes __post_init__.
Valid(b) == \A cy \in CurrentYears : PensionInputs_post_init(b, cy) = Return("None")

\* Every product the projection forms with a tenths value is a whole amount.
FixedPointExact(b) ==
    /\ b.g_amount % 100 = 0
    /\ \A n \in {"folketrygd_growth", "otp_growth", "savings_growth"} : b[n] % 10 = 0

SimBundles ==
    {b \in {Bundle(ages, 1989, bal, fl, g, s, ac, gr) :
                ages \in (FirstAge .. FirstAge + 1) \X (FirstAge + 1 .. FirstAge + MaxYears),
                bal \in {<<0, 0, 0>>, <<100, 200, 300>>},
                fl \in {<<0, 0>>, <<50, 20>>},
                g \in {100, 200},
                s \in Salaries,
                ac \in AccrualRates,
                gr \in GrowthRates} :
        Valid(b) /\ FixedPointExact(b)}

SimCalls ==
    [op : {"simulate"}, inputs : SimBundles, work_until_age : SimAges,
     pension_age : SimAges]

InitSim == call \in SimCalls /\ ret = Pending /\ PageIdle

CallSimulate ==
    /\ call.op = "simulate"
    /\ ret = Pending
    /\ ret' = simulate_until_pension_age(call.inputs, call.work_until_age,
                                         call.pension_age)
    /\ UNCHANGED <<call, pc, ui, inputs, idx, rows, errors>>

NextSim == CallSimulate

SpecSim == InitSim /\ [][NextSim]_vars

(***************************************************************************)
(* Claims about simulate_until_pension_age.                                *)
(***************************************************************************)
StartBalances(f) ==
    [folketrygd |-> f.current_folketrygd_balance,
     otp |-> f.current_otp_balance,
     savings |-> f.current_savings]

\* C1: the projection fails, returning no balances, whenever retirement_age <=
\* current_age or retirement_age > life_expectancy, and returns a triple of
\* balances for every other retirement_age and any work_until_age.
C1_Preconditions ==
    (call.op = "simulate" /\ ret # Pending) =>
        LET f == call.inputs
            p == call.pension_age
        IN  /\ (p <= f.current_age \/ p > f.life_expectancy) =>
                (ret.kind = "raise" /\ ret.exc = "ValueError" /\ "value" \notin DOMAIN ret)
            /\ (f.current_age < p /\ p <= f.life_expectancy) =>
                (ret.kind = "return"
                 /\ DOMAIN ret.value = {"folketrygd", "otp", "savings"})

\* C1 witness: retirement_age = 30 with current_age = 36 has failed.
C1_Witness ==
    /\ call.op = "simulate"
    /\ call.pension_age = 30
    /\ call.inputs.current_age = 36
    /\ ret.kind = "raise"

\* Every accrual rate, growth rate and annual flow of the bundle is zero.
AllZero(f) ==
    \A n \in {"state_accrual_rate", "otp_below_rate", "otp_above_rate",
              "folketrygd_growth", "otp_growth", "savings_growth",
              "annual_savings", "annual_rental_savings"} : f[n] = 0

\* C6 as stated: with all rates and flows zero the projection returns the
\* starting balances for any retirement age >= current age, equality included
\* (the retirement age within the life expectancy).
C6_ZeroGrowthFromCurrentAge ==
    (call.op = "simulate" /\ ret # Pending) =>
        LET f == call.inputs
            p == call.pension_age
        IN  (AllZero(f) /\ p >= f.current_age /\ p <= f.life_expectancy) =>
                ret = Return(StartBalances(f))

\* C6 amended: with all rates and flows zero the projection returns the
\* starting balances for any retirement age with current_age < retirement_age
\* <= life_expectancy; at retirement_age = current_age it fails instead.
C6_ZeroGrowthIdentity ==
    (call.op = "simulate" /\ ret # Pending) =>
        LET f == call.inputs
            p == call.pension_age
        IN  AllZero(f) =>
                /\ (f.current_age < p /\ p <= f.life_expectancy) =>
                        ret = Return(StartBalances(f))
                /\ p = f.current_age => ret.kind = "raise"

\* C6 witness: a zero-rate projection over two or more years, some of them
\* worked, has returned non-zero starting balances.
C6_Witness ==
    /\ Returned("simulate")
    /\ AllZero(call.inputs)
    /\ call.pension_age >= call.inputs.current_age + 2
    /\ call.work_until_age > call.inputs.current_age
    /\ call.inputs.salary_in_g > 0
    /\ call.inputs.current_folketrygd_balance > 0
    /\ ret.value = StartBalances(call.inputs)

\* The state and occupational balances never decrease when the salary of the
\* called bundle is raised to any s2 of Salaries.
SalaryMonotone ==
    LET f == call.inputs
    IN  \A s2 \in Salaries :
            s2 >= f.salary_in_g =>
                LET r2 == simulate_until_pension_age(
                              [f EXCEPT !.salary_in_g = s2],
                              call.work_until_age, call.pension_age)
                IN  /\ r2.kind = "return"
                    /\ r2.value.folketrygd >= ret.value.folketrygd
                    /\ r2.value.otp >= ret.value.otp

\* C7 as stated: a higher salary never lowers the final state or occupational
\* balance, whatever the rates of the bundle.
C7_MonotoneAnyRates ==
    Returned("simulate") => SalaryMonotone

\* The three accrual rates are >= 0 and the state and occupational growth
\* rates are >= -1.
RatesInRange(f) ==
    /\ f.state_accrual_rate >= 0
    /\ f.otp_below_rate >= 0
    /\ f.otp_above_rate >= 0
    /\ f.folketrygd_growth >= -10
    /\ f.otp_growth >= -10

\* C7 amended: a higher salary never lowers the final state or occupational
\* balance when the three accrual rates are >= 0 and the state and
\* occupational growth rates are >= -1.
C7_MonotoneInSalary ==
    (Returned("simulate") /\ RatesInRange(call.inputs)) => SalaryMonotone

\* C7 witness: with rates in range and a worked year, the salary of 3 G has
\* given strictly less than 12 G gives in both balances.
C7_Witness ==
    /\ Returned("simulate")
    /\ RatesInRange(call.inputs)
    /\ call.inputs.salary_in_g = 30
    /\ call.work_until_age > call.inputs.current_age
    /\ LET r2 == simulate_until_pension_age(
                     [call.inputs EXCEPT !.salary_in_g = 120],
                     call.work_until_age, call.pension_age)
       IN  /\ r2.value.folketrygd > ret.value.folketrygd
           /\ r2.value.otp > ret.value.otp

\* The ages of the simulated years in which contributions are applied.
WorkedYears(f, work_until_age, pension_age) ==
    {a \in f.current_age .. pension_age - 1 : a < Min(work_until_age, pension_age)}

\* The balance at `age`: each year from `first` on adds the contribution when
\* the year is in `worked`, then applies the growth.
RECURSIVE ExpectedAt(_, _, _, _, _, _)
ExpectedAt(start, contribution, growth, worked, first, age) ==
    IF age <= first
    THEN start
    ELSE LET before == ExpectedAt(start, contribution, growth, worked, first, age - 1)
             paid == IF age - 1 \in worked THEN contribution ELSE 0
         IN  ((before + paid) * (10 + growth)) \div 10

RECURSIVE Compounded(_, _, _)
Compounded(start, growth, years) ==
    IF years <= 0
    THEN start
    ELSE (Compounded(start, growth, years - 1) * (10 + growth)) \div 10

\* C8: contributions are applied exactly in the years current_age <= a <
\* min(work_until_age, retirement_age), growth in every year, contributions
\* first; with work_until_age <= current_age each balance is its start
\* compounded retirement_age - current_age times, and any work_until_age >=
\* retirement_age gives the result of work_until_age = retirement_age.
C8_WorkingWindow ==
    Returned("simulate") =>
        LET f == call.inputs
            w == call.work_until_age
            p == call.pension_age
            worked == WorkedYears(f, w, p)
            salary == (f.g_amount * f.salary_in_g) \div 10
            capped == Min(salary, (f.g_amount * 71) \div 10)
            state == (capped * f.state_accrual_rate) \div 10
            occupational == (capped * f.otp_below_rate) \div 10
                            + (Max(0, salary - capped) * f.otp_above_rate) \div 10
            saved == f.annual_savings + f.annual_rental_savings
            years == p - f.current_age
        IN  /\ ret.value.folketrygd =
                 ExpectedAt(f.current_folketrygd_balance, state, f.folketrygd_growth,
                            worked, f.current_age, p)
            /\ ret.value.otp =
                 ExpectedAt(f.current_otp_balance, occupational, f.otp_growth,
                            worked, f.current_age, p)
            /\ ret.value.savings =
                 ExpectedAt(f.current_savings, saved, f.savings_growth,
                            worked, f.current_age, p)
            /\ w <= f.current_age =>
                 /\ ret.value.folketrygd =
                      Compounded(f.current_folketrygd_balance, f.folketrygd_growth, years)
                 /\ ret.value.otp = Compounded(f.current_otp_balance, f.otp_growth, years)
                 /\ ret.value.savings = Compounded(f.current_savings, f.savings_growth, years)
            /\ w >= p => ret = simulate_until_pension_age(f, p, p)

\* C8 witness: a projection with a worked year followed by a year not worked,
\* with non-zero contributions and growth, has returned.
C8_Witness ==
    /\ Returned("simulate")
    /\ call.inputs.current_age < call.work_until_age
    /\ call.work_until_age < call.pension_age
    /\ call.inputs.salary_in_g = 120
    /\ call.inputs.state_accrual_rate = 2
    /\ call.inputs.annual_savings > 0
    /\ call.inputs.folketrygd_growth = 10
    /\ call.inputs.current_folketrygd_balance > 0
    /\ ret.value.folketrygd > call.inputs.current_folketrygd_balance

(***************************************************************************)
(* app.py: the page.  One run reads the sidebar widgets (ui), builds the   *)
(* bundle and computes one row per selected retirement age.                *)
(***************************************************************************)
\* a + b for fractions in lowest terms, over their least common denominator.
AddFrac(a, b) ==
    LET l == (a.den \div Gcd(a.den, b.den)) * b.den
    IN  Frac(a.num * (l \div a.den) + b.num * (l \div b.den), l)

\* round(x) of Python: to the nearest integer, ties to the even one.
Round(x) ==
    LET q == x.num \div x.den
        r == x.num % x.den
    IN  IF 2 * r < x.den THEN q
        ELSE IF 2 * r > x.den THEN q + 1
        ELSE IF q % 2 = 0 THEN q ELSE q + 1

\* The sequences of at most n distinct elements of S.
RECURSIVE Selections(_, _)
Selections(S, n) ==
    IF n = 0
    THEN {<<>>}
    ELSE LET shorter == Selections(S, n - 1)
         IN  shorter \cup {Append(q, x) : q \in shorter, x \in S}

Distinct(q) == \A i, j \in DOMAIN q : i # j => q[i] # q[j]

\* The values the sidebar widgets can hold (lines 55-122).
Widgets ==
    {[current_age |-> ca, birth_year |-> 1963, balances |-> bal, flows |-> <<50, 20>>,
      g_amount |-> 100, salary_in_g |-> s, work_until_age |-> w,
      life_expectancy |-> le, accrual |-> <<2, 1, 2>>, growth |-> gr,
      pension_ages |-> q] :
        ca \in {61, 64, 66, 70},
        bal \in {<<0, 0, 0>>, <<100, 200, 300>>},
        s \in {30, 71, 120},
        w \in {61, 67, 75},
        le \in {80, 100},
        gr \in {<<0, 0, 0>>, <<-10, 0, 0>>},
        q \in {x \in Selections({55, 62, 65, 67, 70}, MaxSelected) : Distinct(x)}}

InitApp ==
    /\ ui \in {u \in Widgets : u.work_until_age >= u.current_age}
    /\ pc = "input"
    /\ inputs = "None"
    /\ idx = 0
    /\ rows = <<>>
    /\ errors = <<>>
    /\ call = [op |-> "page", current_year |-> 2026]
    /\ ret = Pending

\* Lines 124-127: nothing selected, the page warns and stops.
NoSelection ==
    /\ pc = "input"
    /\ ui.pension_ages = <<>>
    /\ pc' = "stopped"
    /\ UNCHANGED <<call, ret, ui, inputs, idx, rows, errors>>

\* Lines 129-154: the bundle is built; a validation error is shown and stops the
\* page, otherwise the loop starts with no rows.
BuildInputs ==
    /\ pc = "input"
    /\ ui.pension_ages # <<>>
    /\ LET b == Bundle(<<ui.current_age, ui.life_expectancy>>, ui.birth_year,
                       ui.balances, ui.flows, ui.g_amount, ui.salary_in_g,
                       ui.accrual, ui.growth)
           e == PensionInputs_post_init(b, call.current_year)
       IN  IF e.kind = "raise"
           THEN /\ errors' = Append(errors, [stage |-> "input", error |-> e])
                /\ pc' = "stopped"
                /\ UNCHANGED <<inputs, idx, rows>>
           ELSE /\ inputs' = b
                /\ rows' = <<>>
                /\ idx' = 1
                /\ pc' = "loop"
                /\ UNCHANGED errors
    /\ UNCHANGED <<call, ret, ui>>

\* Lines 158-194: the try block for one retirement age.
RowFor(pa) ==
    LET sim == simulate_until_pension_age(inputs, ui.work_until_age, pa)
    IN  IF sim.kind = "raise"
        THEN sim
        ELSE LET annual_nav == annual_pension_from_balance(sim.value.folketrygd, pa,
                                   ui.birth_year, ui.life_expectancy, TRUE)
                 annual_otp == annual_pension_from_balance(sim.value.otp, pa,
                                   ui.birth_year, ui.life_expectancy, FALSE)
                 annual_sav == annual_pension_from_balance(sim.value.savings, pa,
                                   ui.birth_year, ui.life_expectancy, FALSE)
             IN  Return([Pensjonsalder |-> pa,
                         JobberTil |-> ui.work_until_age,
                         LonnIG |-> ui.salary_in_g,
                         ArligNAV |-> Round(annual_nav),
                         ArligOTP |-> Round(annual_otp),
                         ArligFraSparing |-> Round(annual_sav),
                         SumArlig |-> Round(AddFrac(AddFrac(annual_nav, annual_otp),
                                                    annual_sav))])

\* Mutant: a failed age ends the loop (break for continue).
LoopStepBreak ==
    /\ pc = "loop"
    /\ idx <= Len(ui.pension_ages)
    /\ LET pa == ui.pension_ages[idx]
           r == RowFor(pa)
       IN  IF r.kind = "raise"
           THEN /\ errors' = Append(errors, [stage |-> "row", pa |-> pa, error |-> r])
                /\ idx' = Len(ui.pension_ages) + 1
                /\ UNCHANGED rows
           ELSE /\ rows' = Append(rows, r.value)
                /\ idx' = idx + 1
                /\ UNCHANGED errors
    /\ UNCHANGED <<call, ret, pc, ui, inputs>>

\* Lines 156-197: one pass of `for pa in pension_ages`: the row is appended,
\* or the error is shown for this age and the loop continues.
LoopStep ==
    /\ pc = "loop"
    /\ idx <= Len(ui.pension_ages)
    /\ LET pa == ui.pension_ages[idx]
           r == RowFor(pa)
       IN  IF r.kind = "raise"
           THEN /\ errors' = Append(errors, [stage |-> "row", pa |-> pa, error |-> r])
                /\ UNCHANGED rows
           ELSE /\ rows' = Append(rows, r.value)
                /\ UNCHANGED errors
    /\ idx' = idx + 1
    /\ UNCHANGED <<call, ret, pc, ui, inputs>>

\* Lines 199-202: the loop is over, the rows are shown.
ShowResults ==
    /\ pc = "loop"
    /\ idx > Len(ui.pension_ages)
    /\ pc' = "done"
    /\ UNCHANGED <<call, ret, ui, inputs, idx, rows, errors>>

NextApp ==
    \/ NoSelection
    \/ BuildInputs
    \/ LoopStep
    \/ ShowResults

SpecApp == InitApp /\ [][NextApp]_vars

(***************************************************************************)
(* Claim about the calculation loop.                                       *)
(***************************************************************************)
Ages(q) == [i \in DOMAIN q |-> q[i].Pensjonsalder]
FailedAges(q) == [i \in DOMAIN q |-> q[i].pa]

\* C10: a failure for one requested age is reported for that age only and
\* does not stop the loop: the ages passed so far that succeed have exactly one
\* row each, in the order requested, the others one error each, and the
\* results are shown only after every requested age has been passed.
C10_FailureIsolation ==
    pc \in {"loop", "done"} =>
        LET passed == SubSeq(ui.pension_ages, 1, idx - 1)
            Succeeds(pa) ==
                simulate_until_pension_age(inputs, ui.work_until_age, pa).kind = "return"
            Fails(pa) == ~Succeeds(pa)
        IN  /\ Ages(rows) = SelectSeq(passed, Succeeds)
            /\ FailedAges(errors) = SelectSeq(passed, Fails)
            /\ pc = "done" => passed = ui.pension_ages

\* C10 witness: three ages were requested, the first one failed, and the two
\* after it have their rows, in the order requested.
C10_Witness ==
    /\ pc = "done"
    /\ ui.pension_ages = <<55, 67, 62>>
    /\ FailedAges(errors) = <<55>>
    /\ Ages(rows) = <<67, 62>>

====
